---------------------------- MODULE Spec2Model ----------------------------
(***************************************************************************)
(* The catalog browser of src/App.tsx: a fixed array of games, the view    *)
(* state of the App component, its event handlers, and the values the      *)
(* component derives on every render (filter, sort, page slice, page       *)
(* numbers, tag list).                                                     *)
(*                                                                         *)
(* Text is a sequence of one-character strings, so that toLowerCase,       *)
(* includes, split and parseInt are computed character by character.       *)
(***************************************************************************)
EXTENDS Integers, Sequences, FiniteSets, TLC

VARIABLES
    games,           \* the bundled data array (never mutated)
    tags,            \* the tag list computed from it when the module loads
    sortBy,          \* "comments-desc" | "comments-asc"
    currentPage,     \* number
    selectedTags,    \* array of tags, in the order they were ticked
    searchQuery,     \* text of the game search box
    tagSearchQuery,  \* text of the tag search box
    pageInputValue,  \* text of the page-jump box
    view,            \* the constants of the latest render of App
    op,              \* the handler that ran last ("init" before any)
    pageBefore       \* currentPage when that handler was called

state == <<sortBy, currentPage, selectedTags, searchQuery, tagSearchQuery,
           pageInputValue>>

vars == <<games, tags, state, view, op, pageBefore>>

-----------------------------------------------------------------------------
(* Bounds of the model *)

\* longest array of arbitrary games (SpecData)
MaxGames == 2
\* largest comment count of an arbitrary game (SpecData)
MaxComments == 1
\* length of the catalog the full interface runs on (Spec)
CatalogLen == 26
\* longest catalog the paging controls run on (SpecPages)
MaxPagedGames == 73

-----------------------------------------------------------------------------
(* Text *)

Min(a, b) == IF a < b THEN a ELSE b
Max(a, b) == IF a > b THEN a ELSE b

Range(s) == {s[i] : i \in 1..Len(s)}

Digits == {"0", "1", "2", "3", "4", "5", "6", "7", "8", "9"}

DigitVal(c) ==
    CASE c = "0" -> 0 [] c = "1" -> 1 [] c = "2" -> 2 [] c = "3" -> 3
      [] c = "4" -> 4 [] c = "5" -> 5 [] c = "6" -> 6 [] c = "7" -> 7
      [] c = "8" -> 8 [] c = "9" -> 9

\* String.prototype.toLowerCase, one character
LowerChar(c) ==
    CASE c = "A" -> "a"
      [] c = "B" -> "b"
      [] OTHER -> c

\* String.prototype.toLowerCase
ToLowerCase(s) == [i \in 1..Len(s) |-> LowerChar(s[i])]

\* String.prototype.includes: some position of hay where needle starts
Includes(hay, needle) ==
    \E i \in 0..(Len(hay) - Len(needle)) :
        SubSeq(hay, i + 1, i + Len(needle)) = needle

\* 0-based index of the first occurrence of sep in s, or -1 (indexOf)
IndexOf(s, sep) ==
    LET hits == {i \in 0..(Len(s) - Len(sep)) :
                    SubSeq(s, i + 1, i + Len(sep)) = sep}
    IN  IF hits = {} THEN -1
        ELSE CHOOSE i \in hits : \A j \in hits : i <= j

\* String.prototype.split with a non-empty separator
RECURSIVE Split(_, _)
Split(s, sep) ==
    LET at == IndexOf(s, sep)
    IN  IF at < 0 THEN <<s>>
        ELSE <<SubSeq(s, 1, at)>>
                 \o Split(SubSeq(s, at + Len(sep) + 1, Len(s)), sep)

\* Array.prototype.flat, one level
Flat(ss) ==
    LET upTo[k \in 0..Len(ss)] ==
            IF k = 0 THEN <<>> ELSE upTo[k - 1] \o ss[k]
    IN  upTo[Len(ss)]

\* the elements of s at the positions in at, in order
AtPositions(s, at) ==
    [k \in 1..Cardinality(at) |->
        s[CHOOSE i \in at : Cardinality({j \in at : j <= i}) = k]]

\* Array.from(new Set(arr)): first occurrences, in order
Dedup(s) ==
    AtPositions(s, {i \in 1..Len(s) : \A j \in 1..(i - 1) : s[j] # s[i]})

\* Array.prototype.sort: sorted by the comparator and stable, so an
\* element comes after exactly those that the comparator puts before it
\* and those it ties with that precede it in arr. cmp[i][j] is the
\* comparator's result for (arr[i], arr[j]). (SubSeq(f, 1, n) is f for a
\* sequence f of length n; it makes TLC tabulate f instead of recomputing
\* f[i].)
StableSort(arr, cmp) ==
    LET n    == Len(arr)
        rank == SubSeq([i \in 1..n |->
                    1 + Cardinality({j \in 1..n :
                            LET c == cmp[j][i]
                            IN  c < 0 \/ (c = 0 /\ j < i)})], 1, n)
        from == SubSeq([k \in 1..n |-> CHOOSE i \in 1..n : rank[i] = k],
                       1, n)
    IN  [k \in 1..n |-> arr[from[k]]]

\* Array.prototype.slice(first, last) for first, last >= 0
Slice(arr, first, last) ==
    LET lo == Min(first, Len(arr))
        hi == Min(last, Len(arr))
    IN  IF lo >= hi THEN <<>> ELSE SubSeq(arr, lo + 1, hi)

\* decimal value of a sequence of digits
RECURSIVE DecimalValue(_)
DecimalValue(ds) ==
    IF ds = <<>> THEN 0
    ELSE 10 * DecimalValue(SubSeq(ds, 1, Len(ds) - 1)) + DigitVal(ds[Len(ds)])

\* parseInt(text, 10): leading white space is skipped, one sign is read,
\* then the longest run of digits; whatever follows is ignored. The result
\* is a record: nan is TRUE when there is no digit (NaN), else n is the
\* number.
ParseInt(text) ==
    LET n       == Len(text)
        spaces  == CHOOSE k \in 0..n :
                       /\ \A i \in 1..k : text[i] = " "
                       /\ (k < n => text[k + 1] # " ")
        signed  == spaces < n /\ text[spaces + 1] \in {"+", "-"}
        from    == IF signed THEN spaces + 1 ELSE spaces
        ndigits == CHOOSE k \in 0..(n - from) :
                       /\ \A i \in 1..k : text[from + i] \in Digits
                       /\ (from + k < n => text[from + k + 1] \notin Digits)
        value   == DecimalValue(SubSeq(text, from + 1, from + ndigits))
    IN  IF ndigits = 0 THEN [nan |-> TRUE, n |-> 0]
        ELSE IF signed /\ text[spaces + 1] = "-"
             THEN [nan |-> FALSE, n |-> 0 - value]
             ELSE [nan |-> FALSE, n |-> value]

-----------------------------------------------------------------------------
(* The data *)

\* the title and genre text a game can have
Shapes == <<
    [title |-> <<"A", "b">>, genres |-> <<"A">>],
    [title |-> <<"B">>, genres |-> <<"A", "b", ",", " ", "A">>],
    [title |-> <<"b", "a">>,
     genres |-> <<"2", "0", "1", "4", ",", " ">>] >>

\* the comment counts along a catalog
CommentPattern == <<1, 0, 2, 1, 1, 0, 2>>

\* one record of data.json; link is a URL, distinct for every record: here
\* the position of the record in the data
Game(shape, comments, link) ==
    [title |-> Shapes[shape].title, genres |-> Shapes[shape].genres,
     comments |-> comments, link |-> link]

\* every array of at most MaxGames games
SmallArrays ==
    UNION {
        { [i \in 1..n |-> Game(pick[i][1], pick[i][2], i)] :
            pick \in [1..n -> (1..Len(Shapes)) \X (0..MaxComments)] }
        : n \in 0..MaxGames }

\* a catalog of n games
Catalog(n) ==
    [i \in 1..n |->
        Game(((i - 1) % Len(Shapes)) + 1,
             CommentPattern[((i - 1) % Len(CommentPattern)) + 1], i)]

-----------------------------------------------------------------------------
(* Module-level values, computed once from the data *)

\* the token "2014" that is left out of the tags
Year2014 == <<"2", "0", "1", "4">>

CommaSpace == <<",", " ">>

\* genres: the distinct lower-case genre tokens, without "2014" and ""
genres(data) ==
    LET tokens == Flat([i \in 1..Len(data) |->
                          Split(ToLowerCase(data[i].genres), CommaSpace)])
    IN  SelectSeq(Dedup(tokens), LAMBDA str : str # Year2014 /\ str # <<>>)

\* frequencyMap: the reduce over genres. An object is kept as the sequence
\* of its <<key, value>> entries in insertion order.
frequencyMap(vals) ==
    LET acc[k \in 0..Len(vals)] ==
            IF k = 0 THEN <<>>
            ELSE LET val == vals[k]
                     old == acc[k - 1]
                     at  == {i \in 1..Len(old) : old[i][1] = val}
                 IN  IF at = {} THEN Append(old, <<val, 0 + 1>>)
                     ELSE [i \in 1..Len(old) |->
                             IF i \in at THEN <<val, old[i][2] + 1>>
                             ELSE old[i]]
    IN  acc[Len(vals)]

\* a key that Object.entries lists first, in numeric order: an array index
IsIndexKey(key) ==
    /\ key # <<>>
    /\ \A i \in 1..Len(key) : key[i] \in Digits
    /\ (Len(key) > 1 => key[1] # "0")

\* Object.entries: index keys in ascending numeric order, then the other
\* keys in insertion order
ObjectEntries(obj) ==
    LET indexed == SelectSeq(obj, LAMBDA e : IsIndexKey(e[1]))
    IN  StableSort(indexed,
                   [i \in 1..Len(indexed) |-> [j \in 1..Len(indexed) |->
                       DecimalValue(indexed[i][1])
                           - DecimalValue(indexed[j][1])]])
            \o SelectSeq(obj, LAMBDA e : ~IsIndexKey(e[1]))

\* sortedByFrequency: the entries by descending count
sortedByFrequency(freq) ==
    LET entries == ObjectEntries(freq)
    IN  StableSort(entries,
                   [a \in 1..Len(entries) |-> [b \in 1..Len(entries) |->
                       entries[b][2] - entries[a][2]]])

\* tags: the keys of sortedByFrequency
TagList(data) ==
    LET sorted == sortedByFrequency(frequencyMap(genres(data)))
        kept   == Slice(sorted, 0, Len(sorted))
    IN  [i \in 1..Len(kept) |-> kept[i][1]]

-----------------------------------------------------------------------------
(* The constants App computes on every render *)

gamesPerPage == 12

\* PassesFilter with `some` in the place of `every`
PassesFilterAnyTag(game, selected, query) ==
    /\ \/ Len(selected) = 0
       \/ \E k \in 1..Len(selected) :
              Includes(ToLowerCase(game.genres), selected[k])
    /\ IF query # <<>>
       THEN Includes(ToLowerCase(game.title), ToLowerCase(query))
       ELSE TRUE

\* the predicate of games.filter
PassesFilter(game, selected, query) ==
    /\ \/ Len(selected) = 0
       \/ \A k \in 1..Len(selected) :
              Includes(ToLowerCase(game.genres), selected[k])
    /\ IF query # <<>>
       THEN Includes(ToLowerCase(game.title), ToLowerCase(query))
       ELSE TRUE

filteredGames(data, selected, query) ==
    SelectSeq(data, LAMBDA game : PassesFilter(game, selected, query))

\* the comparator of [...filteredGames].sort
CompareGames(a, b, by) ==
    IF by = "comments-asc" THEN a.comments - b.comments
    ELSE IF by = "comments-desc" THEN b.comments - a.comments
    ELSE 0

\* sortedGames with the descending order made by reversing the ascending
sortedGamesByReversal(filtered, by) ==
    LET asc == StableSort(filtered,
                   [i \in 1..Len(filtered) |-> [j \in 1..Len(filtered) |->
                       filtered[i].comments - filtered[j].comments]])
    IN  IF by = "comments-desc"
        THEN [k \in 1..Len(asc) |-> asc[Len(asc) + 1 - k]]
        ELSE asc

sortedGames(filtered, by) ==
    StableSort(filtered,
               [i \in 1..Len(filtered) |-> [j \in 1..Len(filtered) |->
                   CompareGames(filtered[i], filtered[j], by)]])

\* currentGames with the end of the slice taken as inclusive
currentGamesInclusiveEnd(sorted, page) ==
    LET indexOfLastGame  == page * gamesPerPage
        indexOfFirstGame == indexOfLastGame - gamesPerPage
    IN  Slice(sorted, indexOfFirstGame, indexOfLastGame + 1)

currentGames(sorted, page) ==
    LET indexOfLastGame  == page * gamesPerPage
        indexOfFirstGame == indexOfLastGame - gamesPerPage
    IN  Slice(sorted, indexOfFirstGame, indexOfLastGame)

filteredTags(all, query) ==
    SelectSeq(all, LAMBDA tag :
        Includes(ToLowerCase(tag), ToLowerCase(query)))

\* Math.ceil(a / b) for a >= 0, b > 0
Ceil(a, b) == IF a % b = 0 THEN a \div b ELSE (a \div b) + 1

totalPages(sorted) == Ceil(Len(sorted), gamesPerPage)

maxPagesToShow == 5

\* an entry of the page-number list: a page number or the "..." marker
PageEntry(n) == [page |-> n]
Ellipsis == [ellipsis |-> TRUE]

\* EndPage without the clamp to totalPages - 1
EndPageUnclamped(cp, tp) ==
    Max(cp - ((maxPagesToShow - 2) \div 2), 2) + maxPagesToShow - 3

\* endPage of getPageNumbers
EndPage(cp, tp) ==
    Min(Max(cp - ((maxPagesToShow - 2) \div 2), 2) + maxPagesToShow - 3,
        tp - 1)

\* startPage of getPageNumbers, after the pull-back
StartPage(cp, tp) ==
    LET startPage == Max(cp - ((maxPagesToShow - 2) \div 2), 2)
        endPage   == EndPage(cp, tp)
    IN  IF endPage - startPage < maxPagesToShow - 3
        THEN Max(endPage - (maxPagesToShow - 3) + 1, 2)
        ELSE startPage

getPageNumbers(cp, tp) ==
    IF tp <= maxPagesToShow
    THEN [i \in 1..tp |-> PageEntry(i)]
    ELSE LET startPage == StartPage(cp, tp)
             endPage   == EndPage(cp, tp)
         IN  <<PageEntry(1)>>
               \o (IF startPage > 2 THEN <<Ellipsis>> ELSE <<>>)
               \o [i \in 1..(endPage - startPage + 1) |->
                      PageEntry(startPage + i - 1)]
               \o (IF endPage < tp - 1 THEN <<Ellipsis>> ELSE <<>>)
               \o <<PageEntry(tp)>>

\* one run of the function App: its constants for the state given
Render(data, all, by, page, selected, query, tagQuery) ==
    LET filtered == filteredGames(data, selected, query)
        sorted   == sortedGames(filtered, by)
        pages    == totalPages(sorted)
    IN  [filteredGames  |-> filtered,
         sortedGames    |-> sorted,
         currentGames   |-> currentGames(sorted, page),
         filteredTags   |-> filteredTags(all, tagQuery),
         totalPages     |-> pages,
         pageNumbers    |-> getPageNumbers(page, pages)]

\* the card grid and the paging controls are rendered, not "NO GAMES FOUND"
ControlsShown == Len(view.currentGames) > 0

-----------------------------------------------------------------------------
(* The handlers. A step is a handler, the render that follows it, the      *)
(* effect on [selectedTags, searchQuery, sortBy] when that render finds    *)
(* one of the three changed (Object.is), and the render after the effect:  *)
(* React runs them all before it handles the next event.                   *)

SortOrders == {"comments-desc", "comments-asc"}

\* what can be typed into the game search box
SearchInputs == {<<>>, <<"A">>, <<"b", "A">>}

\* what can be typed into the tag search box
TagSearchInputs == {<<>>, <<"B">>}

\* what can be typed into the page-jump box
PageInputs ==
    {<<>>, <<"a", "b">>, <<"0">>, <<"2">>, <<"2", "a">>, <<"9", "9">>,
     <<"-", "1">>, <<" ", "3">>}

\* PageAfterEffect without the effect
PageWithoutEffect(depsChanged, page) == page

\* useEffect(() => setCurrentPage(1), [selectedTags, searchQuery, sortBy])
PageAfterEffect(depsChanged, page) == IF depsChanged THEN 1 ELSE page

\* the render that ends a step
Rendered ==
    /\ UNCHANGED <<games, tags>>
    /\ pageBefore' = currentPage
    /\ view' = Render(games, tags, sortBy', currentPage', selectedTags',
                      searchQuery', tagSearchQuery')

\* Toggled with an untick that drops every tag
ToggledDroppingAll(prev, tag) ==
    IF tag \in Range(prev) THEN <<>> ELSE Append(prev, tag)

\* the updater of setSelectedTags in toggleTag
Toggled(prev, tag) ==
    IF tag \in Range(prev)
    THEN SelectSeq(prev, LAMBDA t : t # tag)
    ELSE Append(prev, tag)

\* a tag checkbox: toggleTag(tag). The updater returns a new array, so the
\* effect runs.
toggleTag(tag) ==
    /\ tag \in Range(view.filteredTags)
    /\ selectedTags' = Toggled(selectedTags, tag)
    /\ currentPage' = PageAfterEffect(TRUE, currentPage)
    /\ op' = "toggleTag"
    /\ UNCHANGED <<sortBy, searchQuery, tagSearchQuery, pageInputValue>>
    /\ Rendered

\* the Clear Filters button. setSelectedTags([]) stores a new array even
\* when no tag is selected, so the effect runs.
ClearFilters ==
    /\ tagSearchQuery' = <<>>
    /\ selectedTags' = <<>>
    /\ currentPage' = PageAfterEffect(TRUE, currentPage)
    /\ op' = "clearFilters"
    /\ UNCHANGED <<sortBy, searchQuery, pageInputValue>>
    /\ Rendered

\* the game search box: setSearchQuery(e.target.value)
SetSearchQuery(value) ==
    /\ searchQuery' = value
    /\ currentPage' = PageAfterEffect(value # searchQuery, currentPage)
    /\ op' = "setSearchQuery"
    /\ UNCHANGED <<sortBy, selectedTags, tagSearchQuery, pageInputValue>>
    /\ Rendered

\* the tag search box: setTagSearchQuery(e.target.value)
SetTagSearchQuery(value) ==
    /\ tagSearchQuery' = value
    /\ currentPage' = PageAfterEffect(FALSE, currentPage)
    /\ op' = "setTagSearchQuery"
    /\ UNCHANGED <<sortBy, selectedTags, searchQuery, pageInputValue>>
    /\ Rendered

\* the sort selector: setSortBy(value)
SetSortBy(value) ==
    /\ sortBy' = value
    /\ currentPage' = PageAfterEffect(value # sortBy, currentPage)
    /\ op' = "setSortBy"
    /\ UNCHANGED <<selectedTags, searchQuery, tagSearchQuery, pageInputValue>>
    /\ Rendered

\* paginate(pageNumber)
paginate(pageNumber) ==
    /\ currentPage' = pageNumber
    /\ UNCHANGED <<sortBy, selectedTags, searchQuery, tagSearchQuery,
                   pageInputValue>>
    /\ Rendered

\* the previous button is disabled on page 1
PreviousDisabled == currentPage = 1

PreviousPage ==
    /\ ControlsShown
    /\ ~PreviousDisabled
    /\ op' = "previous"
    /\ paginate(currentPage - 1)

\* NextDisabled without the disabled attribute
NextNeverDisabled == FALSE

\* the next button is disabled on the last page
NextDisabled == currentPage = view.totalPages

NextPage ==
    /\ ControlsShown
    /\ ~NextDisabled
    /\ op' = "next"
    /\ paginate(currentPage + 1)

\* a page-number button: the k-th entry of getPageNumbers(), if a number
ClickPageNumber(k) ==
    /\ ControlsShown
    /\ k \in 1..Len(view.pageNumbers)
    /\ view.pageNumbers[k] # Ellipsis
    /\ op' = "page"
    /\ paginate(view.pageNumbers[k].page)

\* the page-jump box: setPageInputValue(e.target.value)
SetPageInputValue(value) ==
    /\ ControlsShown
    /\ pageInputValue' = value
    /\ currentPage' = PageAfterEffect(FALSE, currentPage)
    /\ op' = "setPageInputValue"
    /\ UNCHANGED <<sortBy, selectedTags, searchQuery, tagSearchQuery>>
    /\ Rendered

\* the condition under which handlePageInputSubmit goes to the page
JumpAccepted(pageNumber, pages) ==
    ~pageNumber.nan /\ pageNumber.n >= 1 /\ pageNumber.n <= pages

\* the page-jump form: handlePageInputSubmit
handlePageInputSubmit ==
    /\ ControlsShown
    /\ LET pageNumber == ParseInt(pageInputValue)
       IN  IF JumpAccepted(pageNumber, view.totalPages)
           THEN /\ currentPage' = pageNumber.n
                /\ UNCHANGED pageInputValue
           ELSE /\ pageInputValue' = <<>>
                /\ UNCHANGED currentPage
    /\ op' = "submit"
    /\ UNCHANGED <<sortBy, selectedTags, searchQuery, tagSearchQuery>>
    /\ Rendered

-----------------------------------------------------------------------------
(* Specifications *)

\* App after its first render and effects, on the data given
InitApp(data) ==
    /\ games = data
    /\ tags = TagList(data)
    /\ sortBy = "comments-desc"
    /\ currentPage = 1
    /\ selectedTags = <<>>
    /\ searchQuery = <<>>
    /\ tagSearchQuery = <<>>
    /\ pageInputValue = <<>>
    /\ view = Render(games, tags, sortBy, currentPage, selectedTags,
                     searchQuery, tagSearchQuery)
    /\ op = "init"
    /\ pageBefore = 1

\* the whole interface on a catalog of several pages
Init == InitApp(Catalog(CatalogLen))

Next ==
    \/ \E tag \in Range(tags) : toggleTag(tag)
    \/ ClearFilters
    \/ \E value \in SearchInputs : SetSearchQuery(value)
    \/ \E value \in TagSearchInputs : SetTagSearchQuery(value)
    \/ \E value \in SortOrders : SetSortBy(value)
    \/ PreviousPage
    \/ NextPage
    \/ \E k \in 1..(maxPagesToShow + 2) : ClickPageNumber(k)
    \/ \E value \in PageInputs : SetPageInputValue(value)
    \/ handlePageInputSubmit

Spec == Init /\ [][Next]_vars

\* filter, sort and tag list on every small array of games
InitData == \E data \in SmallArrays : InitApp(data)

NextData ==
    \/ \E tag \in Range(tags) : toggleTag(tag)
    \/ ClearFilters
    \/ \E value \in SearchInputs : SetSearchQuery(value)
    \/ \E value \in SortOrders : SetSortBy(value)

SpecData == InitData /\ [][NextData]_vars

\* the paging controls on catalogs of every length up to MaxPagedGames
InitPages == \E n \in 0..MaxPagedGames : InitApp(Catalog(n))

NextPages ==
    \/ PreviousPage
    \/ NextPage
    \/ \E k \in 1..(maxPagesToShow + 2) : ClickPageNumber(k)

SpecPages == InitPages /\ [][NextPages]_vars

-----------------------------------------------------------------------------
(* Properties *)

\* text n occurs in text h: h is some text, then n, then some text
IsSubstring(n, h) ==
    \E a \in 0..Len(h) : \E b \in a..Len(h) : SubSeq(h, a + 1, b) = n

\* q is the least number of pages of size gamesPerPage that hold count items
IsCeiling(q, count) ==
    /\ q * gamesPerPage >= count
    /\ (q - 1) * gamesPerPage < count
    /\ q >= 0

\* C1: whenever the filtered result is not empty, currentPage lies in
\* 1..totalPages, and totalPages is ceil(filtered count / 12)
C1_PageInRange ==
    Len(view.filteredGames) > 0 =>
        /\ IsCeiling(view.totalPages, Len(view.filteredGames))
        /\ 1 <= currentPage
        /\ currentPage <= view.totalPages

\* the last page of a filtered result of several pages, reached by "next"
C1_Witness ==
    /\ op = "next"
    /\ selectedTags # <<>>
    /\ view.totalPages > 1
    /\ currentPage = view.totalPages

\* selectedTags, searchQuery or sortBy changes in the step
FilterOrSortChanges ==
    \/ selectedTags' # selectedTags
    \/ searchQuery' # searchQuery
    \/ sortBy' # sortBy

\* C2, as claimed: a step that changes selectedTags, searchQuery or sortBy
\* sets currentPage to 1, and a step that changes none of them but changes
\* tagSearchQuery or pageInputValue leaves currentPage as it was
C2_AsClaimed ==
    [][ /\ FilterOrSortChanges => currentPage' = 1
        /\ ( /\ ~FilterOrSortChanges
             /\ (tagSearchQuery' # tagSearchQuery
                    \/ pageInputValue' # pageInputValue) )
            => currentPage' = currentPage ]_vars

\* C2, amended: a step that changes selectedTags, searchQuery or sortBy sets
\* currentPage to 1, and so does every click on Clear Filters, also when no
\* tag was selected and only tagSearchQuery changes; an edit of the tag
\* search box or of the page-jump box leaves currentPage as it was
C2_ResetOnFilterChange ==
    [][ /\ (FilterOrSortChanges \/ op' = "clearFilters") => currentPage' = 1
        /\ op' \in {"setTagSearchQuery", "setPageInputValue"}
            => currentPage' = currentPage ]_vars

\* a sort selection on page 3 has put the view back on page 1
C2_Witness ==
    /\ op = "setSortBy"
    /\ sortBy = "comments-asc"
    /\ pageBefore = 3
    /\ currentPage = 1

\* text is a decimal numeral: spaces, an optional sign, digits, spaces
IsNumeral(text) ==
    \E a \in 0..Len(text) : \E b \in a..Len(text) : \E c \in b..Len(text) :
        /\ \A i \in 1..a : text[i] = " "
        /\ b - a <= 1
        /\ \A i \in (a + 1)..b : text[i] \in {"+", "-"}
        /\ c > b
        /\ \A i \in (b + 1)..c : text[i] \in Digits
        /\ \A i \in (c + 1)..Len(text) : text[i] = " "

\* the integer a numeral denotes
NumeralValue(text) ==
    LET digits == SelectSeq(text, LAMBDA ch : ch \in Digits)
    IN  IF "-" \in Range(text) THEN 0 - DecimalValue(digits)
        ELSE DecimalValue(digits)

\* C3, as claimed: a submit of the page-jump form goes to the page its text
\* denotes when that is an integer in 1..totalPages, and to exactly that
\* page; any other text leaves currentPage as it was and clears the box
C3_AsClaimed ==
    [][ op' = "submit" =>
            IF /\ IsNumeral(pageInputValue)
               /\ NumeralValue(pageInputValue) \in 1..view.totalPages
            THEN currentPage' = NumeralValue(pageInputValue)
            ELSE /\ currentPage' = currentPage
                 /\ pageInputValue' = <<>> ]_vars

\* C4: a game is in the filtered result if and only if every selected tag
\* is a substring of its lower-case genre text (or no tag is selected) and
\* the lower-case query is a substring of its lower-case title (or the
\* query is empty)
C4_FilterIff ==
    \A i \in 1..Len(games) :
        (games[i] \in Range(view.filteredGames)) <=>
            /\ \/ selectedTags = <<>>
               \/ \A tag \in Range(selectedTags) :
                      IsSubstring(tag, ToLowerCase(games[i].genres))
            /\ \/ searchQuery = <<>>
               \/ IsSubstring(ToLowerCase(searchQuery),
                              ToLowerCase(games[i].title))

\* a tag and a query are set, and each of them alone would keep a game
\* that the two together leave out
C4_Witness ==
    /\ Len(selectedTags) = 1
    /\ searchQuery # <<>>
    /\ Len(games) = 2
    /\ Len(view.filteredGames) = 1

\* the games whose genre list contains the tag
GamesWithTag(tag) ==
    {i \in 1..Len(games) :
        tag \in Range(Split(ToLowerCase(games[i].genres), CommaSpace))}

\* C5, as claimed: a tag listed before another occurs in at least as many
\* games, and neither "2014" nor the empty string is a tag
C5_AsClaimed ==
    /\ \A i \in 1..Len(tags) : \A j \in (i + 1)..Len(tags) :
           Cardinality(GamesWithTag(tags[i]))
               >= Cardinality(GamesWithTag(tags[j]))
    /\ Year2014 \notin Range(tags)
    /\ <<>> \notin Range(tags)

\* the page-number list with a window of three pages first..first + 2
WindowedList(first, tp) ==
    <<PageEntry(1)>>
        \o (IF first > 2 THEN <<Ellipsis>> ELSE <<>>)
        \o <<PageEntry(first), PageEntry(first + 1), PageEntry(first + 2)>>
        \o (IF first + 2 < tp - 1 THEN <<Ellipsis>> ELSE <<>>)
        \o <<PageEntry(tp)>>

\* C6, as claimed: with more than 5 pages the list is page 1, an ellipsis
\* if the window starts after page 2, a window of three consecutive pages
\* inside 2..totalPages - 1, an ellipsis if it ends before totalPages - 1,
\* and the last page, whatever the current page
C6_AsClaimed ==
    (view.totalPages > maxPagesToShow /\ currentPage \in 1..view.totalPages)
        => \E first \in 2..(view.totalPages - 3) :
               view.pageNumbers = WindowedList(first, view.totalPages)

\* C7: totalPages is ceil(count / 12); page N shows the elements of the
\* sorted result at the 0-based positions (N-1)*12 .. N*12 - 1 that exist,
\* in that order; so every page holds 1 to 12 games, only the last one may
\* hold fewer than 12, and the page on show is the page of currentPage
C7_Pages ==
    LET sorted == view.sortedGames
        count  == Len(sorted)
    IN  /\ IsCeiling(view.totalPages, count)
        /\ count = 0 => view.totalPages = 0
        /\ \A N \in 1..view.totalPages :
               LET shown == currentGames(sorted, N)
                   first == (N - 1) * gamesPerPage
               IN  /\ Len(shown) \in 1..gamesPerPage
                   /\ Len(shown) < gamesPerPage => N = view.totalPages
                   /\ first + Len(shown) <= count
                   /\ N = view.totalPages => first + Len(shown) = count
                   /\ \A k \in 1..Len(shown) : shown[k] = sorted[first + k]
                   /\ N = currentPage => view.currentGames = shown

\* the short last page of a result of at least three pages, reached by
\* "next"
C7_Witness ==
    /\ op = "next"
    /\ view.totalPages >= 3
    /\ currentPage = view.totalPages
    /\ Len(view.currentGames) \in 1..(gamesPerPage - 1)

\* the position of the game with this link in a sequence of games
PositionOf(link, seq) == CHOOSE k \in 1..Len(seq) : seq[k].link = link

\* C8: for both sort orders the sorted result is a permutation of the
\* filtered result, ordered by comment count, with games of equal count in
\* data order; two games of unequal count come in opposite orders in the
\* two results
C8_StableSort ==
    LET filtered == view.filteredGames
        n        == Len(filtered)
        desc     == sortedGames(filtered, "comments-desc")
        asc      == sortedGames(filtered, "comments-asc")
    IN  /\ view.sortedGames = (IF sortBy = "comments-desc" THEN desc ELSE asc)
        /\ Len(desc) = n /\ Range(desc) = Range(filtered)
        /\ Len(asc) = n /\ Range(asc) = Range(filtered)
        /\ \A i \in 1..n : \A j \in (i + 1)..n :
               /\ desc[i].comments >= desc[j].comments
               /\ asc[i].comments <= asc[j].comments
               /\ desc[i].comments = desc[j].comments
                      => desc[i].link < desc[j].link
               /\ asc[i].comments = asc[j].comments
                      => asc[i].link < asc[j].link
               /\ desc[i].comments # desc[j].comments
                      => PositionOf(desc[i].link, asc)
                             > PositionOf(desc[j].link, asc)

\* ascending order has just been selected for a filtered result that has
\* games of equal and of unequal comment counts
C8_Witness ==
    /\ op = "setSortBy"
    /\ sortBy = "comments-asc"
    /\ selectedTags # <<>>
    /\ \E i, j \in 1..Len(view.filteredGames) :
           /\ i < j
           /\ view.filteredGames[i].comments = view.filteredGames[j].comments
    /\ \E i, j \in 1..Len(view.filteredGames) :
           view.filteredGames[i].comments < view.filteredGames[j].comments

\* C9: a toggle flips the membership of one tag and of no other, and
\* toggling that tag once more gives the set of tags there was before
C9_ToggleTwice ==
    [][ op' = "toggleTag" =>
            \E tag \in Range(tags) :
                /\ (tag \in Range(selectedTags'))
                       <=> (tag \notin Range(selectedTags))
                /\ Range(selectedTags') \ {tag} = Range(selectedTags) \ {tag}
                /\ Range(Toggled(selectedTags', tag)) = Range(selectedTags)
      ]_vars

\* both tags are selected, the second of the list first: one was unticked
\* and ticked again, or they were ticked in that order
C9_Witness ==
    /\ op = "toggleTag"
    /\ Len(tags) = 2
    /\ selectedTags = <<tags[2], tags[1]>>

\* the page numbers of a list, without the ellipses
NumbersOf(list) ==
    LET numbers == SelectSeq(list, LAMBDA e : e # Ellipsis)
    IN  [k \in 1..Len(numbers) |-> numbers[k].page]

\* C10: with currentPage in 1..totalPages, the numbers of the list are
\* strictly increasing, lie in 1..totalPages and include currentPage; with
\* at most 5 pages the list is 1..totalPages without an ellipsis
C10_PageNumbers ==
    (view.totalPages >= 1 /\ currentPage \in 1..view.totalPages) =>
        LET numbers == NumbersOf(view.pageNumbers)
        IN  /\ \A k \in 1..(Len(numbers) - 1) : numbers[k] < numbers[k + 1]
            /\ \A k \in 1..Len(numbers) : numbers[k] \in 1..view.totalPages
            /\ \E k \in 1..Len(numbers) : numbers[k] = currentPage
            /\ view.totalPages <= maxPagesToShow =>
                   view.pageNumbers =
                       [i \in 1..view.totalPages |-> PageEntry(i)]

\* the last of more than 5 pages, reached by its page-number button
C10_Witness ==
    /\ op = "page"
    /\ view.totalPages > maxPagesToShow
    /\ currentPage = view.totalPages

=============================================================================
